---------------------------- MODULE Spec2Model ----------------------------
(***************************************************************************)
(* Model of the osTicket Task Creator: the recurrence engine               *)
(* (nextDueDate, getCreationForDate, fastForwardDailyLike), the            *)
(* transactional createTaskFromTemplate in its two implementations         *)
(* (db/db.js and the self-contained job script), and the batch run().      *)
(*                                                                         *)
(* Dates.  A JavaScript Date that holds a UTC midnight is modelled by its  *)
(* day number: the number of days since January 1st of EpochYear.  An      *)
(* Invalid Date (time value NaN) is the value InvalidDate.  A stored date  *)
(* string "YYYY-MM-DD" is the record [y, m, d] with a 1-based month.       *)
(***************************************************************************)
EXTENDS Integers, Sequences, FiniteSets, TLC

VARIABLES
    \* nextDueDate applied to one rule and one date
    nRec, nPrev, nOut,
    \* getCreationForDate applied to one template and one today
    eT, eToday, eOut,
    \* the osTicket database: committed rows, the task sequence (id = 2), its
    \* row lock, the AUTO_INCREMENT counter of ost_task
    rows, seqNext, seqLock, autoInc,
    \* the two connection pools: checked-out connections and, per connection,
    \* the writes of its open transaction
    checkedOut, connPending,
    \* db.js initError, and Date.now() in milliseconds
    initError, now,
    \* one process per caller of createTaskFromTemplate: its implementation,
    \* control point, arguments, connection and locals
    impl, pc, arg, conn, taskNumber, taskId, callNo,
    \* history: the calls that rejected
    failedCalls,
    \* templates.json and data/generated-tasks.json
    templates, auditFile,
    \* run(): the template being processed, the in-memory audit list, the
    \* created and failed lists, process.exitCode, and which run of the day it is
    idx, existing, created, failed, exitCode, runNo,
    \* the kinds of message the run has written to the console
    stdout,
    \* history: what readJson(OUTPUT_PATH) returned at the start of the run
    startFile,
    \* history: the templates evaluated in the current run, and every
    \* createTaskFromTemplate invocation of the day as <<run, template>>
    evaluated, invoked,
    \* generateTemplateEvents: the stored templates, the window, the enabled
    \* layers, the filters of the request, the day shift of the configured time
    \* zone, and the walk: template index, dueDate, iterations, events, position
    cTemplates, cStart, cEnd, cLayers, cFilter, cZone, cIdx, cDue, cIterations,
    cEvents, cPc,
    \* clients.json and templates.json as the server's routes see them, and
    \* the requests in flight: operation, id argument, position, the array a
    \* store function has read, the response status; history: the removals
    \* written to clients.json
    clientsFile, templatesFile, dOp, dArg, dPc, dLocal, dStatus, dRemovals,
    \* POST and PUT /api/templates: the stored templates (id and recurrence),
    \* and of the last request the body, the status and the store before it
    tStore, tBody, tStatus, tBefore

nextVars == <<nRec, nPrev, nOut>>
evalVars == <<eT, eToday, eOut>>
storeVars == <<rows, seqNext, seqLock, autoInc>>
poolVars == <<checkedOut, connPending>>
envVars == <<initError, now>>
callVars == <<impl, pc, arg, conn, taskNumber, taskId, callNo, failedCalls>>
matVars == <<storeVars, poolVars, envVars, callVars>>
calVars == <<cTemplates, cStart, cEnd, cLayers, cFilter, cZone, cIdx, cDue, cIterations,
             cEvents, cPc>>
delVars == <<clientsFile, templatesFile, dOp, dArg, dPc, dLocal, dStatus, dRemovals>>
\* what the materializer and the batch run never touch
tplVars == <<tStore, tBody, tStatus, tBefore>>
pureVars == <<nextVars, evalVars, calVars, delVars, tplVars>>
fileVars == <<templates, auditFile>>
runVars == <<idx, existing, created, failed, exitCode, runNo, stdout, startFile, evaluated,
            invoked>>
batchVars == <<fileVars, runVars>>

\* ------------------------------------------------------------------ bounds
EpochYear == 2024
\* days of the calendar, from day 0, that previous due dates are drawn from
NumPrevDays == 400
\* length of the window of "today" values an evaluation is asked about
NumTodays == 12
\* largest interval (days, weeks, months) a template carries
MaxInterval == 3
\* concurrent callers of createTaskFromTemplate
NumProcs == 2
\* milliseconds the clock may advance
MaxClock == 1
\* templates in templates.json, and batch runs on the same day
MaxTemplates == 2
MaxRuns == 2

\* ------------------------------------------------------------ calendar
Max(a, b) == IF a >= b THEN a ELSE b

IsLeap(y) == (y % 4 = 0 /\ y % 100 # 0) \/ (y % 400 = 0)

DaysInYear(y) == IF IsLeap(y) THEN 366 ELSE 365

\* m0 is a 0-based month in 0..11
DaysInMonth(y, m0) ==
    CASE m0 = 1 -> IF IsLeap(y) THEN 29 ELSE 28
      [] m0 \in {3, 5, 8, 10} -> 30
      [] OTHER -> 31

RECURSIVE DaysBeforeMonth(_, _)
DaysBeforeMonth(y, m0) ==
    IF m0 = 0 THEN 0 ELSE DaysBeforeMonth(y, m0 - 1) + DaysInMonth(y, m0 - 1)

\* day number of January 1st of year y
RECURSIVE DaysBeforeYear(_)
DaysBeforeYear(y) ==
    IF y = EpochYear THEN 0
    ELSE IF y > EpochYear THEN DaysBeforeYear(y - 1) + DaysInYear(y - 1)
    ELSE DaysBeforeYear(y + 1) - DaysInYear(y)

\* new Date(NaN): the Invalid Date
InvalidDate == -999999999

\* a Date holds at most 100,000,000 days on either side of 1970-01-01; a
\* time value outside that range is NaN
MaxTimeDays == 100000000

Abs(a) == IF a >= 0 THEN a ELSE -a

TimeClip(n) == IF Abs(n - DaysBeforeYear(1970)) > MaxTimeDays THEN InvalidDate ELSE n

\* floor division and modulus for a possibly negative numerator
FloorDiv(a, b) == IF a >= 0 THEN a \div b ELSE -(((-a) + b - 1) \div b)

\* Date.UTC(year, month, day): month and day outside their ranges roll over
DateUTC(y, m0, d) ==
    LET yy == y + FloorDiv(m0, 12)
        mm == m0 - 12 * FloorDiv(m0, 12)
    IN  IF Abs(yy - 1970) > (MaxTimeDays \div 365) + 1 THEN InvalidDate
        ELSE TimeClip(DaysBeforeYear(yy) + DaysBeforeMonth(yy, mm) + (d - 1))

RECURSIVE YearFrom(_, _)
YearFrom(y, n) ==
    IF n < DaysBeforeYear(y) THEN YearFrom(y - 1, n)
    ELSE IF n >= DaysBeforeYear(y + 1) THEN YearFrom(y + 1, n)
    ELSE y

\* getUTCFullYear, getUTCMonth (0-based), getUTCDate of a day number
GetUTCFullYear(n) == YearFrom(EpochYear, n)

RECURSIVE MonthFrom(_, _, _)
MonthFrom(y, m0, rest) ==
    IF rest < DaysInMonth(y, m0) THEN m0 ELSE MonthFrom(y, m0 + 1, rest - DaysInMonth(y, m0))

GetUTCMonth(n) ==
    LET y == GetUTCFullYear(n) IN MonthFrom(y, 0, n - DaysBeforeYear(y))

GetUTCDate(n) ==
    LET y == GetUTCFullYear(n)
    IN  n - DaysBeforeYear(y) - DaysBeforeMonth(y, GetUTCMonth(n)) + 1

\* ------------------------------------------------------ stored values
NoDate == [y |-> 0, m |-> 0, d |-> 0]
Garbage == [y |-> -1, m |-> 0, d |-> 0]
Ymd(y, m, d) == [y |-> y, m |-> m, d |-> d]

\* new Date(`${s}T00:00:00Z`): a date-only string parses to its UTC midnight,
\* anything else to an Invalid Date
ParseDateString(s) ==
    IF s.y > 0 /\ s.m \in 1..12 /\ s.d \in 1..DaysInMonth(s.y, s.m - 1)
    THEN DateUTC(s.y, s.m - 1, s.d)
    ELSE InvalidDate

\* toDateOnly on a Date value: rebuilt from its UTC year, month and day
ToDateOnly(n) ==
    IF n = InvalidDate THEN InvalidDate
    ELSE DateUTC(GetUTCFullYear(n), GetUTCMonth(n), GetUTCDate(n))

\* toDateOnly on a stored string
ToDateOnlyStr(s) == ToDateOnly(ParseDateString(s))

\* addDays: setUTCDate(getUTCDate() + days)
AddDays(base, days) ==
    IF base = InvalidDate THEN InvalidDate
    ELSE DateUTC(GetUTCFullYear(base), GetUTCMonth(base), GetUTCDate(base) + days)

\* Number(x || dflt) for an integer x (an absent value is 0, which is falsy)
NumOr(x, dflt) == IF x = 0 THEN dflt ELSE x

\* parameter blocks of a recurrence object; present = FALSE is an absent block
NoDaily == [present |-> FALSE, intervalDays |-> 0]
NoWeekly == [present |-> FALSE, intervalWeeks |-> 0]
NoMonthly == [present |-> FALSE, intervalMonths |-> 0, dayOfMonth |-> 0]
NoYearly == [present |-> FALSE, month |-> 0, day |-> 0]
NoCustom == [present |-> FALSE, startDate |-> NoDate, intervalDays |-> 0]

Rec(type, daily, weekly, monthly, yearly, custom) ==
    [type |-> type, daily |-> daily, weekly |-> weekly, monthly |-> monthly,
     yearly |-> yearly, custom |-> custom]

\* ------------------------------------------------------- RecurrenceRule
\* return null
Terminal == -999999998

\* a comparison of time values; one with NaN on either side is false
Before(a, b) == a # InvalidDate /\ b # InvalidDate /\ a < b

RuleTypes == {"daily", "weekly", "monthly", "quarterly", "yearly", "custom"}

NextMonthly(base, recurrence) ==
    LET intervalMonths == Max(1, NumOr(recurrence.monthly.intervalMonths, 1))
        dayOfMonth == NumOr(recurrence.monthly.dayOfMonth, GetUTCDate(base))
    IN  DateUTC(GetUTCFullYear(base), GetUTCMonth(base) + intervalMonths, dayOfMonth)

\* a quarterly step that does not carry into the next year
NextQuarterlyNoCarry(base) ==
    LET month == GetUTCMonth(base)
        nextQuarterStartMonth ==
            IF month < 3 THEN 3 ELSE IF month < 6 THEN 6 ELSE IF month < 9 THEN 9 ELSE 0
    IN  DateUTC(GetUTCFullYear(base), nextQuarterStartMonth, 1)

NextQuarterly(base) ==
    LET month == GetUTCMonth(base)
        nextQuarterStartMonth ==
            IF month < 3 THEN 3 ELSE IF month < 6 THEN 6 ELSE IF month < 9 THEN 9 ELSE 12
        year == GetUTCFullYear(base) + (IF nextQuarterStartMonth = 12 THEN 1 ELSE 0)
        normalizedMonth == IF nextQuarterStartMonth = 12 THEN 0 ELSE nextQuarterStartMonth
    IN  DateUTC(year, normalizedMonth, 1)

NextYearly(base, recurrence) ==
    LET year == GetUTCFullYear(base) + 1
        month == NumOr(recurrence.yearly.month, GetUTCMonth(base) + 1) - 1
        day == NumOr(recurrence.yearly.day, GetUTCDate(base))
    IN  DateUTC(year, month, day)

NextDueDate(prevDue, recurrence) ==
    LET base == ToDateOnly(prevDue) IN
    CASE recurrence.type \in RuleTypes /\ base = InvalidDate -> InvalidDate
      [] recurrence.type = "daily" ->
           AddDays(base, Max(1, NumOr(recurrence.daily.intervalDays, 1)))
      [] recurrence.type = "weekly" ->
           AddDays(base, Max(1, NumOr(recurrence.weekly.intervalWeeks, 1)) * 7)
      [] recurrence.type = "monthly" -> NextMonthly(base, recurrence)
      [] recurrence.type = "quarterly" -> NextQuarterly(base)
      [] recurrence.type = "yearly" -> NextYearly(base, recurrence)
      [] recurrence.type = "custom" ->
           AddDays(base, Max(1, NumOr(recurrence.custom.intervalDays, 1)))
      [] OTHER -> Terminal

\* ----------------------------------------------------- ScheduleEvaluator
MaxIterations == 50000

Template(firstDueDate, daysBefore, recurrence) ==
    [firstDueDate |-> firstDueDate, daysBeforeDueDateToCreate |-> daysBefore,
     recurrence |-> recurrence]

\* the anchor as a stored string: custom.startDate when the rule is custom and
\* the string is there (truthy), firstDueDate otherwise
AnchorString(template) ==
    IF /\ template.recurrence.type = "custom"
       /\ template.recurrence.custom.present
       /\ template.recurrence.custom.startDate # NoDate
    THEN template.recurrence.custom.startDate
    ELSE template.firstDueDate

\* an anchor moved onto the rule's own grid: the next quarter start
InitialDueDateOnGrid(template) ==
    IF /\ template.recurrence.type = "quarterly"
       /\ ToDateOnlyStr(AnchorString(template)) # InvalidDate
    THEN NextQuarterly(ToDateOnlyStr(AnchorString(template)))
    ELSE ToDateOnlyStr(AnchorString(template))

\* toDateOnly(undefined) throws a TypeError; an unparsable string gives an
\* Invalid Date, on which toISOString() throws a RangeError
InitialDueDate(template) == ToDateOnlyStr(AnchorString(template))

RECURSIVE FastForwardLoop(_, _, _, _)
FastForwardLoop(due, creation, today, intervalDays) ==
    \* steps counts the turns of the while loop
    IF Before(creation, today)
    THEN LET rest == FastForwardLoop(AddDays(due, intervalDays),
                                     AddDays(creation, intervalDays), today, intervalDays)
         IN  [due |-> rest.due, creation |-> rest.creation, steps |-> rest.steps + 1]
    ELSE [due |-> due, creation |-> creation, steps |-> 0]

FastForwardDailyLike(due, today, daysBefore, intervalDays) ==
    LET creation == AddDays(due, -daysBefore)
        diffDays == IF Before(creation, today) THEN (today - creation) \div intervalDays ELSE 0
    IN  IF diffDays > 0
        THEN FastForwardLoop(AddDays(due, diffDays * intervalDays),
                             AddDays(creation, diffDays * intervalDays), today, intervalDays)
        ELSE FastForwardLoop(due, creation, today, intervalDays)

Match(due, creation) == [kind |-> "match", dueDate |-> due, creationDate |-> creation]
NoMatch == [kind |-> "none", dueDate |-> 0, creationDate |-> 0]
Throws == [kind |-> "throw", dueDate |-> 0, creationDate |-> 0]
Pending == [kind |-> "pending", dueDate |-> 0, creationDate |-> 0]

\* (recurrence.daily || recurrence.custom)?.intervalDays
DailyLikeIntervalField(recurrence) ==
    IF recurrence.daily.present THEN recurrence.daily.intervalDays
    ELSE IF recurrence.custom.present THEN recurrence.custom.intervalDays
    ELSE 0

\* a test that also takes an occurrence whose creation date was missed
CreationTodayOrMissed(creationDate, today) == creationDate <= today

\* creationDate.getTime() === today.getTime()
CreationIsToday(creationDate, today) == creationDate = today

RECURSIVE EvalLoop(_, _, _, _, _)
EvalLoop(recurrence, daysBefore, today, due, iterations) ==
    IF iterations >= MaxIterations THEN NoMatch
    ELSE
    LET creationDate == AddDays(due, -daysBefore) IN
    \* the 'Iteration check' log line formats both dates
    IF due = InvalidDate \/ creationDate = InvalidDate THEN Throws
    ELSE IF CreationIsToday(creationDate, today) THEN Match(due, creationDate)
    ELSE IF Before(today, creationDate) THEN NoMatch
    ELSE IF recurrence.type \in {"daily", "custom"}
    THEN LET interval == Max(1, NumOr(DailyLikeIntervalField(recurrence), 1))
             fast == FastForwardDailyLike(due, today, daysBefore, interval)
         IN  \* the 'Fast-forwarded' log line formats fast.due
             IF fast.due = InvalidDate THEN Throws
             ELSE EvalLoop(recurrence, daysBefore, today, fast.due, iterations + 1)
    ELSE IF recurrence.type = "weekly"
    THEN LET intervalWeeks == Max(1, NumOr(recurrence.weekly.intervalWeeks, 1))
             fast == FastForwardDailyLike(due, today, daysBefore, intervalWeeks * 7)
         IN  IF fast.due = InvalidDate THEN Throws
             ELSE EvalLoop(recurrence, daysBefore, today, fast.due, iterations + 1)
    ELSE LET nextDue == NextDueDate(due, recurrence) IN
         IF nextDue = Terminal THEN NoMatch
         ELSE IF nextDue = due THEN NoMatch
         ELSE EvalLoop(recurrence, daysBefore, today, nextDue, iterations + 1)

\* an evaluation that takes no account of the lead time
DaysBeforeIgnored(template) == 0

\* Math.max(0, Number(template.daysBeforeDueDateToCreate || 0))
DaysBefore(template) == Max(0, NumOr(template.daysBeforeDueDateToCreate, 0))

GetCreationForDate(template, today) ==
    LET daysBefore == DaysBefore(template)
        due == InitialDueDate(template)
    IN  IF AnchorString(template) = NoDate \/ due = InvalidDate THEN Throws
        ELSE EvalLoop(template.recurrence, daysBefore, today, due, 0)

\* the reference: single steps from the anchor with nextDueDate
RECURSIVE RefLoop(_, _, _, _)
RefLoop(recurrence, daysBefore, today, due) ==
    LET creationDate == AddDays(due, -daysBefore) IN
    IF due = InvalidDate \/ creationDate = InvalidDate THEN Throws
    ELSE IF creationDate = today THEN Match(due, creationDate)
    ELSE IF Before(today, creationDate) THEN NoMatch
    ELSE LET nextDue == NextDueDate(due, recurrence) IN
         IF nextDue = Terminal \/ nextDue = due THEN NoMatch
         ELSE RefLoop(recurrence, daysBefore, today, nextDue)

RefEvaluate(template, today) ==
    LET daysBefore == Max(0, NumOr(template.daysBeforeDueDateToCreate, 0))
        due == InitialDueDate(template)
    IN  IF AnchorString(template) = NoDate \/ due = InvalidDate THEN Throws
        ELSE RefLoop(template.recurrence, daysBefore, today, due)

\* ------------------------------------------- inputs of the pure functions
\* an interval the server's validation accepts (it has no upper limit) and
\* that carries any date out of the range of a Date
Huge == 2 * MaxTimeDays
Intervals == (-1..MaxInterval) \cup {Huge}
DaysOfMonth == {0, 1, 15, 28, 29, 30, 31}
MonthsOfYear == {0, 1, 2, 6, 12}

DailyBlocks == {NoDaily} \cup {[present |-> TRUE, intervalDays |-> i] : i \in Intervals}
WeeklyBlocks == {NoWeekly} \cup {[present |-> TRUE, intervalWeeks |-> i] : i \in Intervals}
MonthlyBlocks ==
    {NoMonthly} \cup {[present |-> TRUE, intervalMonths |-> i, dayOfMonth |-> d] :
                        i \in Intervals, d \in DaysOfMonth}
YearlyBlocks ==
    {NoYearly} \cup {[present |-> TRUE, month |-> m, day |-> d] :
                       m \in MonthsOfYear, d \in DaysOfMonth}
AnchorA == Ymd(EpochYear, 1, 10)
AnchorB == Ymd(EpochYear, 1, 11)
CustomBlocks ==
    {NoCustom} \cup {[present |-> TRUE, startDate |-> s, intervalDays |-> i] :
                       s \in {NoDate, Garbage, AnchorB}, i \in Intervals}

\* recurrence objects as the server's normalizeRecurrence stores them: the
\* block of the rule's own type only
NormalizedRecs ==
    {Rec("daily", b, NoWeekly, NoMonthly, NoYearly, NoCustom) : b \in DailyBlocks}
    \cup {Rec("weekly", NoDaily, b, NoMonthly, NoYearly, NoCustom) : b \in WeeklyBlocks}
    \cup {Rec("monthly", NoDaily, NoWeekly, b, NoYearly, NoCustom) : b \in MonthlyBlocks}
    \cup {Rec("quarterly", NoDaily, NoWeekly, NoMonthly, NoYearly, NoCustom)}
    \cup {Rec("yearly", NoDaily, NoWeekly, NoMonthly, b, NoCustom) : b \in YearlyBlocks}
    \cup {Rec("custom", NoDaily, NoWeekly, NoMonthly, NoYearly, b) : b \in CustomBlocks}
    \cup {Rec("other", NoDaily, NoWeekly, NoMonthly, NoYearly, NoCustom)}

\* recurrence objects of a templates.json that also keeps the blocks of
\* other kinds (the file is plain JSON; the job reads whatever it holds)
MixedRecs ==
    {Rec(t, d, NoWeekly, NoMonthly, NoYearly, c) :
        t \in {"daily", "custom"}, d \in DailyBlocks, c \in CustomBlocks}

\* quarterly recurrence objects that keep blocks of other kinds
QuarterlyMixedRecs ==
    {Rec("quarterly", d, NoWeekly, m, NoYearly, NoCustom) :
        d \in DailyBlocks,
        m \in {NoMonthly, [present |-> TRUE, intervalMonths |-> 2, dayOfMonth |-> 15]}}

StoredRecs == NormalizedRecs \cup MixedRecs

PrevDays == 0..(NumPrevDays - 1)
AnchorDay == ParseDateString(AnchorA)
\* days further from the anchor on which the later occurrences of a rule that
\* steps by months or more fall: a month after the anchor and two days before
\* that, "February 31st", the next quarter, a year after the anchor
FarTodays ==
    {DateUTC(EpochYear, 1, 8), DateUTC(EpochYear, 1, 10), DateUTC(EpochYear, 1, 31),
     DateUTC(EpochYear, 3, 1), DateUTC(EpochYear + 1, 0, 10)}

\* Scenario A and the quarterly scenario of the specification
ScenarioA ==
    Template(Ymd(2024, 1, 10), 2,
             Rec("daily", [present |-> TRUE, intervalDays |-> 3], NoWeekly, NoMonthly,
                 NoYearly, NoCustom))
ScenarioAToday == DateUTC(2024, 0, 14)
ScenarioQ ==
    Template(Ymd(2024, 2, 15), 0,
             Rec("quarterly", NoDaily, NoWeekly, NoMonthly, NoYearly, NoCustom))
ScenarioQToday == DateUTC(2024, 3, 1)

Todays ==
    (AnchorDay - 3)..(AnchorDay - 3 + NumTodays - 1)
        \cup {ScenarioAToday}
LeadTimes == {-1, 0, 2, Huge}

\* the days a template is asked about
TodaysFor(template) ==
    Todays \cup (IF template.recurrence.type \in {"monthly", "quarterly", "yearly"}
                 THEN FarTodays \cup {ScenarioQToday} ELSE {})

EvalTemplates ==
    {Template(f, l, r) : f \in {AnchorA, Garbage}, l \in LeadTimes, r \in StoredRecs}
        \cup {ScenarioA, ScenarioQ}

\* ------------------------------------------- OccurrenceMaterializer
ConnectionLimit == 10
SeqInit == 1

Procs == 1..NumProcs
Impls == {"db", "script"}
\* a pooled connection: the pool that owns it and its index in that pool
Conns == Impls \X (1..ConnectionLimit)
NoConn == <<"none", 0>>

Row(table, id, number, p) ==
    [table |-> table, id |-> id, number |-> number, by |-> <<p, callNo[p]>>]
NoNumber == <<"-", 0>>

\* String(taskNumber) of the sequence, and `T${Date.now()}`
SeqNumber(n) == <<"N", n>>
TimestampNumber(ms) == <<"T", ms>>

FreeIndexes(i) == {k \in 1..ConnectionLimit : <<i, k>> \notin checkedOut}
MinOf(S) == CHOOSE k \in S : \A j \in S : k <= j

Committed(pending) == rows \cup pending

\* the value a committed transaction leaves in ost_sequence.next
SeqAfter(pending) ==
    IF \E r \in pending : r.table = "sequence"
    THEN (CHOOSE r \in pending : r.table = "sequence").number[2]
    ELSE seqNext

\* a catch block that rethrows without conn.rollback()
RolledBackKeepsWrites(c) == connPending

\* conn.rollback(): the open transaction's writes are discarded
RolledBack(c) == [connPending EXCEPT ![c] = {}]

\* a finally block that keeps the connection
NeverReleased(c) == checkedOut

\* conn.release(): the connection goes back to the pool
Released(c) == checkedOut \ {c}

Goto(p, label) == pc' = [pc EXCEPT ![p] = label]

Rejected(p) == failedCalls' = failedCalls \cup {<<p, callNo[p]>>}

\* a call has returned (resolved or rejected)
Returned(p) == pc[p] \in {"ret_ok", "ret_err"}

\* a readiness check that never reports the initialization error
StatusAlwaysOk == FALSE

\* if (initError) in assertReady; getStatus().hasError in the job script
HasInitError == initError

\* assertReady() / db.getStatus(), and in the job script the date strings,
\* which are computed before a connection is asked for
AssertReady(p) ==
    /\ pc[p] = "check"
    /\ IF HasInitError \/ (impl[p] = "script" /\ ~arg[p].datesValid)
       THEN Goto(p, "ret_err") /\ Rejected(p)
       ELSE Goto(p, "connect") /\ UNCHANGED failedCalls
    /\ UNCHANGED <<storeVars, poolVars, envVars, impl, arg, conn, taskNumber, taskId,
                   callNo, pureVars, batchVars>>

\* await pool.getConnection()
GetConnection(p) ==
    /\ pc[p] = "connect"
    /\ \/ /\ FreeIndexes(impl[p]) # {}
          /\ LET c == <<impl[p], MinOf(FreeIndexes(impl[p]))>> IN
             /\ checkedOut' = checkedOut \cup {c}
             /\ conn' = [conn EXCEPT ![p] = c]
          /\ Goto(p, "begin")
          /\ UNCHANGED failedCalls
       \/ /\ Goto(p, "ret_err")
          /\ Rejected(p)
          /\ UNCHANGED <<checkedOut, conn>>
    /\ UNCHANGED <<storeVars, connPending, envVars, impl, arg, taskNumber, taskId,
                   callNo, pureVars, batchVars>>

\* db.js computes its date strings and the task payload with the connection
\* in hand and outside the try block: toISOString() of an Invalid Date throws
\* there and nothing releases the connection.
ComputeThrows(p) == impl[p] = "db" /\ ~arg[p].datesValid

\* Date.now() never runs backwards: a reading is at least the last one
ClockReadings == now..MaxClock

\* conn.beginTransaction(); START TRANSACTION commits whatever transaction
\* the connection still had open
BeginTransaction(p) ==
    /\ pc[p] = "begin"
    /\ IF ComputeThrows(p)
       THEN /\ Goto(p, "ret_err")
            /\ Rejected(p)
            /\ UNCHANGED <<storeVars, connPending, taskNumber, now>>
       ELSE /\ rows' = Committed(connPending[conn[p]])
            /\ seqNext' = SeqAfter(connPending[conn[p]])
            /\ seqLock' = IF seqLock = conn[p] THEN NoConn ELSE seqLock
            /\ connPending' = [connPending EXCEPT ![conn[p]] = {}]
            /\ IF impl[p] = "db"
               THEN \E t \in ClockReadings :
                       /\ now' = t
                       /\ taskNumber' = [taskNumber EXCEPT ![p] = TimestampNumber(t)]
               ELSE UNCHANGED <<now, taskNumber>>
            /\ UNCHANGED <<autoInc, failedCalls>>
            /\ \E ok \in BOOLEAN :
                 Goto(p, IF ~ok THEN "catch" ELSE IF impl[p] = "db" THEN "task" ELSE "lock")
    /\ UNCHANGED <<checkedOut, initError, impl, arg, conn, taskId, callNo, pureVars,
                   batchVars>>

\* SELECT * FROM ost_sequence WHERE id = 2 FOR UPDATE
LockSequence(p) ==
    /\ pc[p] = "lock"
    /\ \/ /\ seqLock \in {NoConn, conn[p]}
          /\ seqLock' = conn[p]
          /\ taskNumber' = [taskNumber EXCEPT ![p] = SeqNumber(seqNext)]
          /\ Goto(p, "bump")
       \/ /\ Goto(p, "catch")
          /\ UNCHANGED <<seqLock, taskNumber>>
    /\ UNCHANGED <<rows, seqNext, autoInc, poolVars, envVars, impl, arg, conn, taskId,
                   callNo, failedCalls, pureVars, batchVars>>

\* UPDATE ost_sequence SET next = taskNumber + 1
UpdateSequence(p) ==
    /\ pc[p] = "bump"
    /\ \/ /\ connPending' = [connPending EXCEPT ![conn[p]] =
                 @ \cup {Row("sequence", 0, SeqNumber(taskNumber[p][2] + 1), p)}]
          /\ Goto(p, "task")
       \/ /\ Goto(p, "catch")
          /\ UNCHANGED connPending
    /\ UNCHANGED <<storeVars, checkedOut, envVars, impl, arg, conn, taskNumber, taskId,
                   callNo, failedCalls, pureVars, batchVars>>

\* INSERT INTO ost_task: the store assigns insertId
InsertTask(p) ==
    /\ pc[p] = "task"
    /\ \/ /\ autoInc' = autoInc + 1
          /\ taskId' = [taskId EXCEPT ![p] = autoInc]
          /\ connPending' = [connPending EXCEPT ![conn[p]] =
                 @ \cup {Row("task", autoInc, taskNumber[p], p)}]
          /\ Goto(p, IF impl[p] = "db" THEN "cdata" ELSE "form")
       \/ /\ Goto(p, "catch")
          /\ UNCHANGED <<autoInc, taskId, connPending>>
    /\ UNCHANGED <<rows, seqNext, seqLock, checkedOut, envVars, impl, arg, conn,
                   taskNumber, callNo, failedCalls, pureVars, batchVars>>

\* one linked insert (or a run of them) keyed to the task just created
InsertLinked(p, at, table, then) ==
    /\ pc[p] = at
    /\ \/ /\ connPending' = [connPending EXCEPT ![conn[p]] =
                 @ \cup {Row(table, taskId[p], NoNumber, p)}]
          /\ Goto(p, then)
       \/ /\ Goto(p, "catch")
          /\ UNCHANGED connPending
    /\ UNCHANGED <<storeVars, checkedOut, envVars, impl, arg, conn, taskNumber, taskId,
                   callNo, failedCalls, pureVars, batchVars>>

\* db.js: INSERT INTO ost_task__cdata
InsertCdata(p) == InsertLinked(p, "cdata", "cdata", "commit")

\* job script: ost_form_entry, its two ost_form_entry_values, ost_task__cdata
InsertFormEntry(p) == InsertLinked(p, "form", "form", "thread")

\* job script: ost_thread, then ost_thread_entry, ost__search, the two
\* ost_thread_event rows and the assignment update
InsertThread(p) == InsertLinked(p, "thread", "thread", "commit")

\* a statement after the commit that throws inside the try block
AfterCommitThrows == "catch"

\* after await conn.commit(): return, by way of the finally block
AfterCommit == "finally_ok"

\* await conn.commit()
Commit(p) ==
    /\ pc[p] = "commit"
    /\ \/ /\ rows' = Committed(connPending[conn[p]])
          /\ seqNext' = SeqAfter(connPending[conn[p]])
          /\ seqLock' = IF seqLock = conn[p] THEN NoConn ELSE seqLock
          /\ connPending' = [connPending EXCEPT ![conn[p]] = {}]
          /\ Goto(p, AfterCommit)
       \/ /\ Goto(p, "catch")
          /\ UNCHANGED <<rows, seqNext, seqLock, connPending>>
    /\ UNCHANGED <<autoInc, checkedOut, envVars, impl, arg, conn, taskNumber, taskId,
                   callNo, failedCalls, pureVars, batchVars>>

\* catch (err) { await conn.rollback(); throw ... }; the row lock goes with
\* the transaction
Rollback(p) ==
    /\ pc[p] = "catch"
    /\ connPending' = RolledBack(conn[p])
    /\ seqLock' = IF seqLock = conn[p] THEN NoConn ELSE seqLock
    /\ Rejected(p)
    /\ Goto(p, "finally_err")
    /\ UNCHANGED <<rows, seqNext, autoInc, checkedOut, envVars, impl, arg, conn,
                   taskNumber, taskId, callNo, pureVars, batchVars>>

\* finally { conn.release(); }
Release(p) ==
    /\ pc[p] \in {"finally_ok", "finally_err"}
    /\ checkedOut' = Released(conn[p])
    /\ conn' = [conn EXCEPT ![p] = NoConn]
    /\ Goto(p, IF pc[p] = "finally_ok" THEN "ret_ok" ELSE "ret_err")
    /\ UNCHANGED <<storeVars, connPending, envVars, impl, arg, taskNumber, taskId,
                   callNo, failedCalls, pureVars, batchVars>>

StoreInit ==
    /\ rows = {}
    /\ seqNext = SeqInit
    /\ seqLock = NoConn
    /\ autoInc = 1
    /\ checkedOut = {}
    /\ connPending = [c \in Conns |-> {}]

CallArgs == [datesValid : BOOLEAN]
ValidArgs == [datesValid |-> TRUE]

CallInit(label, n) ==
    /\ pc = [p \in Procs |-> label]
    /\ conn = [p \in Procs |-> NoConn]
    /\ taskNumber = [p \in Procs |-> NoNumber]
    /\ taskId = [p \in Procs |-> 0]
    /\ callNo = [p \in Procs |-> n]
    /\ failedCalls = {}

\* ----------------------------------------------------------- batch run
\* today = toDateOnly(new Date()) of the day the runs happen on
Today == ParseDateString(AnchorA) + 4

NoRec == Rec("other", NoDaily, NoWeekly, NoMonthly, NoYearly, NoCustom)

\* the templates a templates.json is filled from here: one that is due for
\* creation today, one that is not, and one whose firstDueDate is no date
\* (POST /api/templates only requires the field to be non-empty)
DueToday ==
    Template(AnchorA, 0,
             Rec("daily", [present |-> TRUE, intervalDays |-> 2], NoWeekly, NoMonthly,
                 NoYearly, NoCustom))
NotDueToday == Template(AnchorA, 0, Rec("quarterly", NoDaily, NoWeekly, NoMonthly, NoYearly, NoCustom))
BadDate == Template(Garbage, 0, Rec("quarterly", NoDaily, NoWeekly, NoMonthly, NoYearly, NoCustom))
Catalogue == {DueToday, NotDueToday, BadDate}

RECURSIVE SeqsUpTo(_, _)
SeqsUpTo(S, n) ==
    IF n = 0 THEN {<<>>}
    ELSE LET shorter == SeqsUpTo(S, n - 1)
         IN  shorter \cup {Append(q, x) : q \in shorter, x \in S}

TemplateLists == SeqsUpTo(Catalogue, MaxTemplates) \ {<<>>}

Audit(p, i, match) ==
    [taskId |-> taskId[p], templateId |-> i, dueDate |-> match.dueDate,
     creationDate |-> match.creationDate, run |-> runNo[p]]

\* the for...of loop moves on to the next template
NextTemplate(i) == i + 1

Runner == 1

\* run(): templatesStore.getAll(), clientsStore.getAll(), then
\* fileStore.readJson(OUTPUT_PATH)
RunStart(p) ==
    /\ pc[p] = "run_start"
    /\ existing' = [existing EXCEPT ![p] = auditFile]
    /\ created' = [created EXCEPT ![p] = <<>>]
    /\ failed' = [failed EXCEPT ![p] = <<>>]
    /\ idx' = [idx EXCEPT ![p] = 1]
    /\ evaluated' = [evaluated EXCEPT ![p] = {}]
    /\ stdout' = [stdout EXCEPT ![p] = {}]
    /\ startFile' = [startFile EXCEPT ![p] = auditFile]
    /\ Goto(p, "loop")
    /\ UNCHANGED <<storeVars, poolVars, envVars, impl, arg, conn, taskNumber, taskId,
                   callNo, failedCalls, fileVars, exitCode, runNo, invoked, pureVars>>

\* one turn of the loop up to the await: getCreationForDate, which is not
\* inside the try block, then the call of createTaskFromTemplate
EvaluateTemplate(p) ==
    /\ pc[p] = "loop"
    /\ idx[p] <= Len(templates)
    /\ evaluated' = [evaluated EXCEPT ![p] = @ \cup {idx[p]}]
    /\ LET match == GetCreationForDate(templates[idx[p]], Today) IN
       CASE match.kind = "throw" ->
              \* run() rejects; run().catch sets process.exitCode = 1
              /\ exitCode' = [exitCode EXCEPT ![p] = 1]
              /\ stdout' = [stdout EXCEPT ![p] = {"job_failed"}]
              /\ Goto(p, "run_end")
              /\ UNCHANGED <<idx, callNo, arg, invoked>>
         [] match.kind = "none" ->
              /\ idx' = [idx EXCEPT ![p] = NextTemplate(@)]
              /\ UNCHANGED <<pc, exitCode, stdout, callNo, arg, invoked>>
         [] OTHER ->
              /\ callNo' = [callNo EXCEPT ![p] = @ + 1]
              /\ arg' = [arg EXCEPT ![p] = ValidArgs]
              /\ invoked' = Append(invoked, <<runNo[p], idx[p]>>)
              /\ Goto(p, "check")
              /\ UNCHANGED <<idx, exitCode, stdout>>
    /\ UNCHANGED <<storeVars, poolVars, envVars, impl, conn, taskNumber, taskId,
                   failedCalls, fileVars, existing, created, failed, runNo, startFile,
                   pureVars>>

\* the call resolved: existing.push(audit); created.push(audit)
RecordCreated(p) ==
    /\ pc[p] = "ret_ok"
    /\ LET audit == Audit(p, idx[p], GetCreationForDate(templates[idx[p]], Today)) IN
       /\ existing' = [existing EXCEPT ![p] = Append(@, audit)]
       /\ created' = [created EXCEPT ![p] = Append(@, audit)]
    /\ idx' = [idx EXCEPT ![p] = NextTemplate(@)]
    /\ Goto(p, "loop")
    /\ UNCHANGED <<storeVars, poolVars, envVars, impl, arg, conn, taskNumber, taskId,
                   callNo, failedCalls, fileVars, failed, exitCode, runNo, evaluated,
                   invoked, stdout, startFile, pureVars>>

\* the call rejected: catch (err) { failed.push(...) }
RecordFailed(p) ==
    /\ pc[p] = "ret_err"
    /\ failed' = [failed EXCEPT ![p] = Append(@, idx[p])]
    /\ idx' = [idx EXCEPT ![p] = NextTemplate(@)]
    /\ Goto(p, "loop")
    /\ UNCHANGED <<storeVars, poolVars, envVars, impl, arg, conn, taskNumber, taskId,
                   callNo, failedCalls, fileVars, existing, created, exitCode, runNo,
                   evaluated, invoked, stdout, startFile, pureVars>>

\* a write of the entries created in this run alone
WrittenOnlyCreated(p) == created[p]

\* fileStore.writeJson(OUTPUT_PATH, existing)
WrittenAudit(p) == existing[p]

\* after the loop: writeJson when something was created, exit code 1 when
\* something failed
Finish(p) ==
    /\ pc[p] = "loop"
    /\ idx[p] > Len(templates)
    /\ auditFile' = IF created[p] # <<>> THEN WrittenAudit(p) ELSE auditFile
    /\ exitCode' = [exitCode EXCEPT ![p] = IF failed[p] # <<>> THEN 1 ELSE @]
    /\ stdout' = [stdout EXCEPT ![p] =
                     (IF created[p] # <<>> THEN {"created"} ELSE {"none_scheduled"})
                     \cup (IF failed[p] # <<>> THEN {"errors"} ELSE {})]
    /\ Goto(p, "run_end")
    /\ UNCHANGED <<storeVars, poolVars, envVars, impl, arg, conn, taskNumber, taskId,
                   callNo, failedCalls, templates, idx, existing, created, failed, runNo,
                   startFile, evaluated, invoked, pureVars>>

\* the scheduler starts the job again on the same day: a new process
RunAgain(p) ==
    /\ pc[p] = "run_end"
    /\ runNo[p] < MaxRuns
    /\ runNo' = [runNo EXCEPT ![p] = @ + 1]
    /\ exitCode' = [exitCode EXCEPT ![p] = 0]
    /\ Goto(p, "run_start")
    /\ UNCHANGED <<storeVars, poolVars, envVars, impl, arg, conn, taskNumber, taskId,
                   callNo, failedCalls, fileVars, idx, existing, created, failed,
                   evaluated, invoked, stdout, startFile, pureVars>>

RunInit ==
    /\ idx = [p \in Procs |-> 1]
    /\ existing = [p \in Procs |-> <<>>]
    /\ created = [p \in Procs |-> <<>>]
    /\ failed = [p \in Procs |-> <<>>]
    /\ exitCode = [p \in Procs |-> 0]
    /\ runNo = [p \in Procs |-> 1]
    /\ stdout = [p \in Procs |-> {}]
    /\ startFile = [p \in Procs |-> <<>>]
    /\ evaluated = [p \in Procs |-> {}]
    /\ invoked = <<>>

NotApplied == [done |-> FALSE, value |-> 0]

\* ------------------------------------------------------ CalendarProjector
\* iteration ceiling of one template's walk
maxIterations == 1000

\* startOfDayInZone on a UTC midnight: the calendar day it is in the zone,
\* which is the day before (shift -1) in a zone behind UTC and the same day
\* (shift 0) otherwise
StartOfDayInZone(date, shift) == DateUTC(GetUTCFullYear(date), GetUTCMonth(date),
                                         GetUTCDate(date) + shift)

\* formatDate: toISOString().slice(0, 10)
FormatDate(date) == Ymd(GetUTCFullYear(date), GetUTCMonth(date) + 1, GetUTCDate(date))

\* a <= b on Dates: false when either is the Invalid Date
AtMost(a, b) == a # InvalidDate /\ b # InvalidDate /\ a <= b

\* an absent client id is 0; an absent assignee has type "none" and id 0
NoFilter == [clientId |-> 0, assigneeType |-> "none", assigneeId |-> 0]

ShouldIncludeClient(clientId, filterClientId) ==
    filterClientId = 0 \/ (clientId # 0 /\ clientId = filterClientId)

TemplateAssignee(template) ==
    IF template.assignee.type \in {"staff", "team"} THEN template.assignee
    ELSE [type |-> "none", id |-> 0]

AssigneeMatchesFilters(assignee, filterType, filterId) ==
    \/ filterType = "none" /\ filterId = 0
    \/ assignee.type = filterType /\ assignee.id = filterId

\* both filters of the forEach body
PassesFilters(template, filter) ==
    /\ ShouldIncludeClient(template.clientId, filter.clientId)
    /\ AssigneeMatchesFilters(TemplateAssignee(template), filter.assigneeType,
                              filter.assigneeId)

Event(layer, template, dateStr) ==
    [layer |-> layer, templateId |-> template.id, start |-> dateStr]

\* templates.forEach: the next template, filtered, and the start of its walk;
\* formatToParts throws RangeError on an Invalid Date
CalBegin ==
    /\ cPc = "template"
    /\ IF cIdx > Len(cTemplates)
       THEN cPc' = "done" /\ UNCHANGED <<cIdx, cDue, cIterations>>
       ELSE LET template == cTemplates[cIdx]
                firstDue == ToDateOnlyStr(template.firstDueDate)
            IN  IF ~PassesFilters(template, cFilter)
                THEN cIdx' = cIdx + 1 /\ UNCHANGED <<cPc, cDue, cIterations>>
                ELSE IF firstDue = InvalidDate
                THEN cPc' = "thrown" /\ UNCHANGED <<cIdx, cDue, cIterations>>
                ELSE /\ cDue' = StartOfDayInZone(firstDue, cZone)
                     /\ cIterations' = 0
                     /\ cPc' = "skip"
                     /\ UNCHANGED cIdx
    /\ UNCHANGED <<cTemplates, cStart, cEnd, cLayers, cFilter, cZone, cEvents>>
    /\ UNCHANGED <<nextVars, evalVars, delVars, tplVars, matVars, batchVars>>

\* one turn of the first loop: occurrences before the window are skipped
CalSkip ==
    /\ cPc = "skip"
    /\ IF cDue # Terminal /\ Before(cDue, cStart) /\ cIterations < maxIterations
       THEN /\ cDue' = NextDueDate(cDue, cTemplates[cIdx].recurrence)
            /\ cIterations' = cIterations + 1
            /\ UNCHANGED cPc
       ELSE cPc' = "emit" /\ UNCHANGED <<cDue, cIterations>>
    /\ UNCHANGED <<cTemplates, cStart, cEnd, cLayers, cFilter, cZone, cIdx, cEvents>>
    /\ UNCHANGED <<nextVars, evalVars, delVars, tplVars, matVars, batchVars>>

\* one turn of the second loop: the markers of one occurrence; formatDate
\* throws RangeError on an Invalid creation date
CalEmit ==
    /\ cPc = "emit"
    /\ IF cDue # Terminal /\ AtMost(cDue, cEnd) /\ cIterations < maxIterations
       THEN LET template == cTemplates[cIdx]
                creationDate == AddDays(cDue, -NumOr(template.daysBeforeDueDateToCreate, 0))
                dueEvents ==
                    IF cLayers.futureDue /\ AtMost(cStart, cDue)
                    THEN <<Event("futureDue", template, FormatDate(cDue))>> ELSE <<>>
                creationEvents ==
                    IF /\ cLayers.futureCreation
                       /\ AtMost(cStart, creationDate) /\ AtMost(creationDate, cEnd)
                    THEN <<Event("futureCreation", template, FormatDate(creationDate))>>
                    ELSE <<>>
                next == NextDueDate(cDue, template.recurrence)
            IN  IF creationDate = InvalidDate
                THEN cPc' = "thrown" /\ UNCHANGED <<cIdx, cDue, cIterations, cEvents>>
                ELSE /\ cEvents' = cEvents \o dueEvents \o creationEvents
                     /\ cDue' = next
                     /\ cIterations' = cIterations + 1
                     /\ IF next = Terminal
                        THEN cIdx' = cIdx + 1 /\ cPc' = "template"
                        ELSE UNCHANGED <<cIdx, cPc>>
       ELSE /\ cIdx' = cIdx + 1
            /\ cPc' = "template"
            /\ UNCHANGED <<cDue, cIterations, cEvents>>
    /\ UNCHANGED <<cTemplates, cStart, cEnd, cLayers, cFilter, cZone>>
    /\ UNCHANGED <<nextVars, evalVars, delVars, tplVars, matVars, batchVars>>

\* --------------------------------------------- inputs of the projector
\* length in days of the short windows, and the distance in days from the
\* anchor to the start of the far window
CalWindowDays == 5
CalFarStart == 1100

CalDaily(i) ==
    Rec("daily", [present |-> TRUE, intervalDays |-> i], NoWeekly, NoMonthly, NoYearly, NoCustom)

CalSchedules ==
        {Template(AnchorA, 0, CalDaily(1)), Template(AnchorA, 2, CalDaily(3)),
         Template(AnchorA, 0, CalDaily(Huge)), Template(AnchorA, Huge, CalDaily(1)),
         Template(Garbage, 0, CalDaily(1)),
         Template(AnchorA, 2, Rec("weekly", NoDaily, [present |-> TRUE, intervalWeeks |-> 1],
                                  NoMonthly, NoYearly, NoCustom)),
         Template(AnchorA, 2, Rec("monthly", NoDaily, NoWeekly,
                                  [present |-> TRUE, intervalMonths |-> 1, dayOfMonth |-> 31],
                                  NoYearly, NoCustom)),
         ScenarioQ,
         Template(AnchorA, 0, Rec("custom", NoDaily, NoWeekly, NoMonthly, NoYearly,
                                  [present |-> TRUE, startDate |-> AnchorB,
                                   intervalDays |-> 2])),
         Template(AnchorA, 0, NoRec)}

CalTemplate(id, clientId, assignee, schedule) ==
    [id |-> id, clientId |-> clientId, assignee |-> assignee,
     firstDueDate |-> schedule.firstDueDate,
     daysBeforeDueDateToCreate |-> schedule.daysBeforeDueDateToCreate,
     recurrence |-> schedule.recurrence]

\* templates.json: one template, or two templates of different clients and
\* assignees
CalTemplateLists ==
    {<<CalTemplate(1, 1, [type |-> "staff", id |-> 7], a)>> : a \in CalSchedules}
    \cup {<<CalTemplate(1, 1, [type |-> "none", id |-> 0], a),
            CalTemplate(2, 2, [type |-> "team", id |-> 3], b)>> :
            a \in {Template(AnchorA, 2, CalDaily(3)), ScenarioQ, Template(AnchorA, 0, NoRec)},
            b \in {Template(AnchorA, 0, CalDaily(3)), Template(Garbage, 0, CalDaily(3))}}

\* ------------------------------------------- client and template routes
\* requests in flight at once, and clients known to the application
NumRequests == 2
NumClients == 2
Reqs == 1..NumRequests
ClientIds == 1..NumClients

DelDone(r, status) ==
    /\ dPc' = [dPc EXCEPT ![r] = "done"]
    /\ dStatus' = [dStatus EXCEPT ![r] = status]

\* app.delete('/api/clients/:id'): templatesStore.getAll() and the inUse test
DeleteClient(r) ==
    /\ dPc[r] = "start" /\ dOp[r] = "deleteClient"
    /\ IF \E template \in templatesFile : template.clientId = dArg[r]
       THEN DelDone(r, 400)
       ELSE dPc' = [dPc EXCEPT ![r] = "remove"] /\ UNCHANGED dStatus
    /\ UNCHANGED <<clientsFile, templatesFile, dOp, dArg, dLocal, dRemovals>>
    /\ UNCHANGED <<nextVars, evalVars, calVars, tplVars, matVars, batchVars>>

\* clientsStore.remove up to its write: getAll(), findIndex, splice
ClientsRemove(r) ==
    /\ dPc[r] = "remove"
    /\ IF dArg[r] \notin clientsFile
       THEN DelDone(r, 404) /\ UNCHANGED dLocal
       ELSE /\ dLocal' = [dLocal EXCEPT ![r] = clientsFile \ {dArg[r]}]
            /\ dPc' = [dPc EXCEPT ![r] = "remove_write"]
            /\ UNCHANGED dStatus
    /\ UNCHANGED <<clientsFile, templatesFile, dOp, dArg, dRemovals>>
    /\ UNCHANGED <<nextVars, evalVars, calVars, tplVars, matVars, batchVars>>

\* clientsStore.remove: writeJson, and the handler's res.json({ success: true })
ClientsWrite(r) ==
    /\ dPc[r] = "remove_write"
    /\ clientsFile' = dLocal[r]
    /\ dRemovals' = dRemovals \cup
           {[req |-> r,
             referenced |-> \E template \in templatesFile : template.clientId = dArg[r]]}
    /\ DelDone(r, 200)
    /\ UNCHANGED <<templatesFile, dOp, dArg, dLocal>>
    /\ UNCHANGED <<nextVars, evalVars, calVars, tplVars, matVars, batchVars>>

\* app.post('/api/templates') and templatesStore.create up to its write:
\* getAll(); the payload's clientId only has to be there
TemplatesCreate(r) ==
    /\ dPc[r] = "start" /\ dOp[r] = "createTemplate"
    /\ dLocal' = [dLocal EXCEPT ![r] = templatesFile]
    /\ dPc' = [dPc EXCEPT ![r] = "create_write"]
    /\ UNCHANGED <<clientsFile, templatesFile, dOp, dArg, dStatus, dRemovals>>
    /\ UNCHANGED <<nextVars, evalVars, calVars, tplVars, matVars, batchVars>>

\* templatesStore.create: push, writeJson, and the handler's status 201; the
\* new id (a uuid) is the request's number
TemplatesWrite(r) ==
    /\ dPc[r] = "create_write"
    /\ templatesFile' = dLocal[r] \cup {[id |-> r, clientId |-> dArg[r]]}
    /\ DelDone(r, 201)
    /\ UNCHANGED <<clientsFile, dOp, dArg, dLocal, dRemovals>>
    /\ UNCHANGED <<nextVars, evalVars, calVars, tplVars, matVars, batchVars>>

\* ------------------------------------------ POST and PUT /api/templates
\* templates the store holds at most
MaxStored == 2

\* values of a JSON body's interval field: absent, a text that is no number,
\* or a number; NaN is what Number() makes of the first two
Undefined == [tag |-> "undefined", n |-> 0]
Text == [tag |-> "text", n |-> 0]
NaN == [tag |-> "nan", n |-> 0]
Num(k) == [tag |-> "num", n |-> k]

\* Number(v)
ToNumber(v) == IF v.tag = "num" THEN v ELSE NaN

\* v || 0
OrZero(v) == IF v.tag \in {"undefined", "nan"} \/ v = Num(0) THEN Num(0) ELSE v

\* the kinds whose block carries an interval
IntervalTypes == {"daily", "weekly", "monthly", "custom"}

\* the interval field of the block of the body's own type; an absent block
\* has no fields
OwnInterval(body) == IF body.hasBlock THEN body.interval ELSE Undefined

\* validateTemplatePayload: the errors; restOk stands for all checks on the
\* fields other than recurrence.type and the interval; a comparison with NaN
\* is false
ValidateTemplatePayload(body) ==
    (IF body.restOk THEN {} ELSE {"other fields"})
    \cup (IF body.type = "" THEN {"recurrence.type is required."}
          ELSE IF body.type \notin RuleTypes THEN {"recurrence.type is not supported."}
          ELSE {})
    \cup (IF /\ body.type \in IntervalTypes
             /\ \/ ~body.hasBlock
                \/ ToNumber(body.interval).tag = "num" /\ ToNumber(body.interval).n < 1
          THEN {"interval >= 1"} ELSE {})

\* normalizeRecurrence: Number(block?.interval || 0) for the four kinds
NormalizeRecurrence(body) ==
    [type |-> body.type,
     interval |-> IF body.type \in IntervalTypes THEN ToNumber(OrZero(OwnInterval(body)))
                  ELSE Undefined]

\* the bodies of the requests; a body without the block has no interval
Bodies ==
    {body \in [type : RuleTypes \cup {"other", ""}, hasBlock : BOOLEAN,
               interval : {Undefined, Text, Num(0), Num(1)}, restOk : BOOLEAN] :
        ~body.hasBlock => body.interval = Undefined}

TplRespond(body, status) ==
    /\ tBody' = body
    /\ tStatus' = status
    /\ tBefore' = tStore

\* app.post('/api/templates') with templatesStore.create
PostTemplate ==
    \E body \in Bodies :
        /\ Cardinality(tStore) < MaxStored
        /\ IF ValidateTemplatePayload(body) # {}
           THEN TplRespond(body, 400) /\ UNCHANGED tStore
           ELSE /\ tStore' = tStore \cup {[id |-> Cardinality(tStore) + 1,
                                           recurrence |-> NormalizeRecurrence(body)]}
                /\ TplRespond(body, 201)
        /\ UNCHANGED <<nextVars, evalVars, calVars, delVars, matVars, batchVars>>

\* app.put('/api/templates/:id') with templatesStore.update
PutTemplate ==
    \E body \in Bodies, id \in 1..MaxStored :
        /\ IF ValidateTemplatePayload(body) # {}
           THEN TplRespond(body, 400) /\ UNCHANGED tStore
           ELSE IF \A template \in tStore : template.id # id
           THEN TplRespond(body, 404) /\ UNCHANGED tStore
           ELSE /\ tStore' = {template \in tStore : template.id # id}
                                \cup {[id |-> id, recurrence |-> NormalizeRecurrence(body)]}
                /\ TplRespond(body, 200)
        /\ UNCHANGED <<nextVars, evalVars, calVars, delVars, matVars, batchVars>>

\* ------------------------------------------------- idle parts of a state
MatIdle ==
    /\ StoreInit
    /\ now = 0
    /\ initError = FALSE
    /\ impl = [p \in Procs |-> "db"]
    /\ arg = [p \in Procs |-> ValidArgs]
    /\ CallInit("idle", 0)

NextIdle ==
    /\ nRec = NoRec
    /\ nPrev = 0
    /\ nOut = NotApplied

EvalIdle ==
    /\ eT = Template(AnchorA, 0, NoRec)
    /\ eToday = 0
    /\ eOut = Pending

CalIdle ==
    /\ cTemplates = <<>>
    /\ cStart = 0
    /\ cEnd = 0
    /\ cLayers = [futureDue |-> FALSE, futureCreation |-> FALSE]
    /\ cFilter = NoFilter
    /\ cZone = 0
    /\ cIdx = 1
    /\ cDue = 0
    /\ cIterations = 0
    /\ cEvents = <<>>
    /\ cPc = "idle"

DelIdle ==
    /\ clientsFile = {}
    /\ templatesFile = {}
    /\ dOp = [r \in Reqs |-> "none"]
    /\ dArg = [r \in Reqs |-> 0]
    /\ dPc = [r \in Reqs |-> "done"]
    /\ dLocal = [r \in Reqs |-> {}]
    /\ dStatus = [r \in Reqs |-> 0]
    /\ dRemovals = {}

TplIdle ==
    /\ tStore = {}
    /\ tBody = [type |-> "", hasBlock |-> FALSE, interval |-> Undefined, restOk |-> FALSE]
    /\ tStatus = 0
    /\ tBefore = {}

BatchIdle ==
    /\ templates = <<>>
    /\ auditFile = <<>>
    /\ RunInit

\* ------------------------- SpecMat: concurrent createTaskFromTemplate calls
\* the kind of a caller; callers are interchangeable, so the initial states
\* list them in the order of their kinds
CallerKind(i, a) == (IF i = "script" THEN 2 ELSE 0) + (IF a.datesValid THEN 1 ELSE 0)

InitMat ==
    /\ StoreInit
    /\ now = 0
    /\ initError \in BOOLEAN
    /\ impl \in [Procs -> Impls]
    /\ arg \in [Procs -> CallArgs]
    /\ \A p, q \in Procs : p < q => CallerKind(impl[p], arg[p]) <= CallerKind(impl[q], arg[q])
    /\ CallInit("check", 1)
    /\ NextIdle
    /\ EvalIdle
    /\ CalIdle
    /\ DelIdle
    /\ TplIdle
    /\ BatchIdle

NextMat ==
    \/ \E p \in Procs : AssertReady(p)
    \/ \E p \in Procs : GetConnection(p)
    \/ \E p \in Procs : BeginTransaction(p)
    \/ \E p \in Procs : LockSequence(p)
    \/ \E p \in Procs : UpdateSequence(p)
    \/ \E p \in Procs : InsertTask(p)
    \/ \E p \in Procs : InsertCdata(p)
    \/ \E p \in Procs : InsertFormEntry(p)
    \/ \E p \in Procs : InsertThread(p)
    \/ \E p \in Procs : Commit(p)
    \/ \E p \in Procs : Rollback(p)
    \/ \E p \in Procs : Release(p)

\* ------------------------------------- Spec: batch runs of one day
Init ==
    /\ StoreInit
    \* a run's outcome does not depend on the clock, which stands still here
    /\ now = MaxClock
    /\ initError \in BOOLEAN
    /\ impl \in [Procs -> Impls]
    /\ \A p \in Procs : p # Runner => impl[p] = "db"
    /\ arg = [p \in Procs |-> ValidArgs]
    /\ pc = [p \in Procs |-> IF p = Runner THEN "run_start" ELSE "idle"]
    /\ conn = [p \in Procs |-> NoConn]
    /\ taskNumber = [p \in Procs |-> NoNumber]
    /\ taskId = [p \in Procs |-> 0]
    /\ callNo = [p \in Procs |-> 0]
    /\ failedCalls = {}
    /\ templates \in TemplateLists
    /\ auditFile = <<>>
    /\ RunInit
    /\ NextIdle
    /\ EvalIdle
    /\ CalIdle
    /\ DelIdle
    /\ TplIdle

Next ==
    \/ RunStart(Runner)
    \/ EvaluateTemplate(Runner)
    \/ AssertReady(Runner)
    \/ GetConnection(Runner)
    \/ BeginTransaction(Runner)
    \/ LockSequence(Runner)
    \/ UpdateSequence(Runner)
    \/ InsertTask(Runner)
    \/ InsertCdata(Runner)
    \/ InsertFormEntry(Runner)
    \/ InsertThread(Runner)
    \/ Commit(Runner)
    \/ Rollback(Runner)
    \/ Release(Runner)
    \/ RecordCreated(Runner)
    \/ RecordFailed(Runner)
    \/ Finish(Runner)
    \/ RunAgain(Runner)

\* ------------------------------------------------- SpecNext: nextDueDate
InitNext ==
    /\ nRec \in NormalizedRecs \cup QuarterlyMixedRecs
    /\ nPrev \in PrevDays
    /\ nOut = NotApplied
    /\ EvalIdle
    /\ CalIdle
    /\ DelIdle
    /\ TplIdle
    /\ MatIdle
    /\ BatchIdle

ApplyNext ==
    /\ nOut = NotApplied
    /\ nOut' = [done |-> TRUE, value |-> NextDueDate(nPrev, nRec)]
    /\ UNCHANGED <<nRec, nPrev, evalVars, calVars, delVars, tplVars, matVars, batchVars>>

\* ------------------------------------------ SpecEval: getCreationForDate
InitEval ==
    /\ eT \in EvalTemplates
    /\ eToday \in TodaysFor(eT)
    /\ eOut = Pending
    /\ NextIdle
    /\ CalIdle
    /\ DelIdle
    /\ TplIdle
    /\ MatIdle
    /\ BatchIdle

Evaluate ==
    /\ eOut = Pending
    /\ eOut' = GetCreationForDate(eT, eToday)
    /\ UNCHANGED <<eT, eToday, nextVars, calVars, delVars, tplVars, matVars, batchVars>>

\* ---------------------------------- SpecCal: generateTemplateEvents
InitCal ==
    /\ cTemplates \in CalTemplateLists
    /\ cStart \in {AnchorDay - 2, AnchorDay + 1, AnchorDay + CalFarStart}
    /\ cEnd \in IF cStart = AnchorDay + CalFarStart THEN {cStart + CalWindowDays}
                ELSE {cStart, cStart + CalWindowDays, cStart + 8 * CalWindowDays}
    /\ cLayers \in [futureDue : BOOLEAN, futureCreation : BOOLEAN]
    /\ cFilter \in IF Len(cTemplates) = 1 THEN {NoFilter}
                   ELSE {NoFilter,
                         [clientId |-> 2, assigneeType |-> "none", assigneeId |-> 0],
                         [clientId |-> 0, assigneeType |-> "staff", assigneeId |-> 7]}
    /\ cZone \in {-1, 0}
    /\ cIdx = 1
    /\ cDue = 0
    /\ cIterations = 0
    /\ cEvents = <<>>
    /\ cPc = "template"
    /\ NextIdle
    /\ EvalIdle
    /\ DelIdle
    /\ TplIdle
    /\ MatIdle
    /\ BatchIdle

NextCal == CalBegin \/ CalSkip \/ CalEmit

\* ------------------ SpecDel: concurrent client and template requests
InitDel ==
    /\ clientsFile \in SUBSET ClientIds
    /\ templatesFile \in SUBSET {[id |-> NumRequests + c, clientId |-> c] : c \in ClientIds}
    /\ dOp \in [Reqs -> {"deleteClient", "createTemplate"}]
    /\ dArg \in [Reqs -> ClientIds]
    /\ dPc = [r \in Reqs |-> "start"]
    /\ dLocal = [r \in Reqs |-> {}]
    /\ dStatus = [r \in Reqs |-> 0]
    /\ dRemovals = {}
    /\ NextIdle
    /\ EvalIdle
    /\ CalIdle
    /\ TplIdle
    /\ MatIdle
    /\ BatchIdle

NextDel ==
    \/ \E r \in Reqs : DeleteClient(r)
    \/ \E r \in Reqs : ClientsRemove(r)
    \/ \E r \in Reqs : ClientsWrite(r)
    \/ \E r \in Reqs : TemplatesCreate(r)
    \/ \E r \in Reqs : TemplatesWrite(r)

\* --------------------------- SpecTpl: POST and PUT /api/templates
\* the store starts empty (ensureFileSync writes '[]')
InitTpl ==
    /\ TplIdle
    /\ NextIdle
    /\ EvalIdle
    /\ CalIdle
    /\ DelIdle
    /\ MatIdle
    /\ BatchIdle

NextTpl == PostTemplate \/ PutTemplate

\* ----------------------- SpecOverlap: two batch runs started together
\* an entry the audit file holds from an earlier day
PriorEntry ==
    [taskId |-> 0, templateId |-> 1, dueDate |-> Today - 1, creationDate |-> Today - 1,
     run |-> 0]

\* both runs are processes of scripts/run-template-job.js, which calls the
\* createTaskFromTemplate of db.js
InitOverlap ==
    /\ StoreInit
    /\ now = MaxClock
    /\ initError \in BOOLEAN
    /\ impl = [p \in Procs |-> "db"]
    /\ arg = [p \in Procs |-> ValidArgs]
    /\ CallInit("run_start", 0)
    /\ templates \in TemplateLists
    /\ auditFile \in {<<>>, <<PriorEntry>>}
    /\ RunInit
    /\ NextIdle
    /\ EvalIdle
    /\ CalIdle
    /\ DelIdle
    /\ TplIdle

NextOverlap ==
    \/ \E p \in Procs : RunStart(p)
    \/ \E p \in Procs : EvaluateTemplate(p)
    \/ \E p \in Procs : AssertReady(p)
    \/ \E p \in Procs : GetConnection(p)
    \/ \E p \in Procs : BeginTransaction(p)
    \/ \E p \in Procs : InsertTask(p)
    \/ \E p \in Procs : InsertCdata(p)
    \/ \E p \in Procs : Commit(p)
    \/ \E p \in Procs : Rollback(p)
    \/ \E p \in Procs : Release(p)
    \/ \E p \in Procs : RecordCreated(p)
    \/ \E p \in Procs : RecordFailed(p)
    \/ \E p \in Procs : Finish(p)

vars == <<pureVars, matVars, batchVars>>

Spec == Init /\ [][Next]_vars
SpecNext == InitNext /\ [][ApplyNext]_vars
SpecEval == InitEval /\ [][Evaluate]_vars
SpecMat == InitMat /\ [][NextMat]_vars
SpecCal == InitCal /\ [][NextCal]_vars
SpecDel == InitDel /\ [][NextDel]_vars
SpecTpl == InitTpl /\ [][NextTpl]_vars
SpecOverlap == InitOverlap /\ [][NextOverlap]_vars

\* ------------------------------------------------------------- claims
RunEnded == pc[Runner] = "run_end"
Invocations(i) == {k \in 1..Len(invoked) : invoked[k][2] = i}
TaskRows == {r \in rows : r.table = "task"}

\* C1: a failure while one template is processed (in its evaluation or in its
\* materialization) never aborts the run: when the run has ended, every
\* template of the list has been evaluated and every one that matches today
\* has been handed to createTaskFromTemplate in that run.
C1_BatchNeverAborts ==
    RunEnded =>
        \A i \in 1..Len(templates) :
            /\ i \in evaluated[Runner]
            /\ GetCreationForDate(templates[i], Today).kind = "match"
                   => \E k \in Invocations(i) : invoked[k][1] = runNo[Runner]

\* C2: a call that rejected has left nothing in the store: no committed row
\* of any table is its own, and the sequence counter counts only the
\* sequence updates that were committed.
C2_RollbackLeavesNoTrace ==
    /\ \A r \in rows : r.by \notin failedCalls
    /\ seqNext = SeqInit + Cardinality({r \in rows : r.table = "sequence"})

C2_Witness ==
    \E p, q \in Procs :
        /\ pc[p] = "ret_err" /\ taskId[p] # 0 /\ conn[p] = NoConn
        /\ pc[q] = "ret_ok"
        /\ \E r \in rows : r.by = <<q, callNo[q]>>

\* C3: under every interleaving of concurrent calls the numbers of the
\* committed tasks are pairwise distinct and are exactly the values the
\* sequence has handed out since its initial value, and the counter equals
\* its initial value plus the number of committed tasks.
C3_NumbersFromSequence ==
    /\ \A r1, r2 \in TaskRows : r1 # r2 => r1.number # r2.number
    /\ {r.number : r \in TaskRows} = {SeqNumber(n) : n \in SeqInit..(seqNext - 1)}
    /\ seqNext = SeqInit + Cardinality(TaskRows)

\* C4: a call that has returned, whichever way it left, no longer holds the
\* connection it obtained from the pool.
C4_ConnectionReleased ==
    \A p \in Procs : Returned(p) => (conn[p] = NoConn /\ conn[p] \notin checkedOut)

\* C5: for a daily, custom or weekly template and every today, evaluate via
\* the fast-forward path returns what single-stepping from the anchor with
\* nextDueDate returns.
C5_FastForwardEquivalence ==
    (eOut # Pending /\ eT.recurrence.type \in {"daily", "custom", "weekly"})
        => eOut = RefEvaluate(eT, eToday)

\* C6: for every rule of the six kinds, with any parameter values a stored
\* template can carry, and every date d, a next due date that is not Terminal
\* is a date strictly later than d.
C6_NextStrictlyLater ==
    (nOut.done /\ nOut.value # Terminal) => Before(nPrev, nOut.value)

\* C7: a run ends with exit code 1 exactly when at least one template that
\* matched failed to materialize in it.
C7_ExitCodeIffFailure ==
    RunEnded => (exitCode[Runner] = 1 <=> failed[Runner] # <<>>)

\* C8: when a run has ended, the audit file holds an entry for every task
\* that was committed, whatever happened to the templates processed later.
C8_AuditHoldsEveryCommit ==
    RunEnded =>
        \A r \in TaskRows : \E k \in 1..Len(auditFile) : auditFile[k].taskId = r.id

\* C9: over all the runs of one day createTaskFromTemplate is invoked at most
\* once for each template.
C9_AtMostOncePerDay ==
    \A i \in 1..Len(templates) : Cardinality(Invocations(i)) <= 1

\* C10: two calls for the same occurrence that both committed produced two
\* tasks with distinct identifiers and distinct numbers.
C10_DistinctIdsAndNumbers ==
    \A r1, r2 \in TaskRows :
        r1.by # r2.by => (r1.id # r2.id /\ r1.number # r2.number)

\* C11: when the initialization error is set, a call rejects before it asks
\* for a connection and before it issues a statement: no call gets past the
\* readiness check, and the store and the pools stay as they were.
C11_UnavailableFailsFast ==
    initError =>
        /\ \A p \in Procs : pc[p] \in {"check", "ret_err"} /\ conn[p] = NoConn
        /\ checkedOut = {}
        /\ \A c \in Conns : connPending[c] = {}
        /\ rows = {} /\ seqNext = SeqInit /\ seqLock = NoConn /\ autoInc = 1

C11_Witness ==
    /\ initError
    /\ \E p, q \in Procs :
          /\ impl[p] = "db" /\ impl[q] = "script"
          /\ arg[p].datesValid /\ arg[q].datesValid
          /\ pc[p] = "ret_err" /\ pc[q] = "ret_err"
          /\ {<<p, callNo[p]>>, <<q, callNo[q]>>} \subseteq failedCalls

\* the walk of getCreationForDate over a rule that is stepped with
\* nextDueDate comes to a due date, still to be created before today, whose
\* next due date is Terminal or is not a date strictly later than it
RECURSIVE NextFailsToAdvance(_, _, _, _, _)
NextFailsToAdvance(recurrence, daysBefore, today, due, iterations) ==
    IF iterations >= MaxIterations \/ due = InvalidDate THEN FALSE
    ELSE IF ~Before(AddDays(due, -daysBefore), today) THEN FALSE
    ELSE LET nextDue == NextDueDate(due, recurrence) IN
         IF nextDue = Terminal \/ ~Before(due, nextDue) THEN TRUE
         ELSE NextFailsToAdvance(recurrence, daysBefore, today, nextDue, iterations + 1)

\* C12: for monthly, quarterly and yearly rules and unrecognized types,
\* whenever nextDueDate returns Terminal or a date that is not strictly later
\* than the current due date, getCreationForDate returns None.
C12_StopsWhenNotAdvancing ==
    (/\ eOut # Pending
     /\ eT.recurrence.type \notin {"daily", "custom", "weekly"}
     /\ InitialDueDate(eT) # InvalidDate
     /\ NextFailsToAdvance(eT.recurrence,
                           Max(0, NumOr(eT.daysBeforeDueDateToCreate, 0)),
                           eToday, InitialDueDate(eT), 0))
        => eOut = NoMatch

\* C13: for every template (its lead time an integer >= 0) and every today,
\* a match has creationDate = today and dueDate = today plus the lead time;
\* an occurrence whose creation date is before today is never returned.
C13_MatchIsCreatedToday ==
    (eOut.kind = "match" /\ eT.daysBeforeDueDateToCreate >= 0) =>
        /\ eOut.creationDate = eToday
        /\ eOut.dueDate = AddDays(eToday, eT.daysBeforeDueDateToCreate)
        /\ eOut.dueDate = eToday + eT.daysBeforeDueDateToCreate

C13_Witness ==
    /\ eOut.kind = "match"
    /\ eT.daysBeforeDueDateToCreate = 2
    /\ eT.recurrence.type = "monthly"
    /\ eOut.dueDate > InitialDueDate(eT)
    /\ AddDays(InitialDueDate(eT), -2) < eToday

\* C14 (Scenario A): firstDueDate 2024-01-10, daily every 3 days, lead time
\* 2, today 2024-01-14: the match is dueDate 2024-01-16, creationDate
\* 2024-01-14.
C14_ScenarioA ==
    (eT = ScenarioA /\ eToday = ScenarioAToday /\ eOut # Pending) =>
        eOut = Match(DateUTC(2024, 0, 16), DateUTC(2024, 0, 14))

C14_Witness ==
    /\ eT = ScenarioA /\ eToday = ScenarioAToday
    /\ eOut.kind = "match"
    /\ GetUTCFullYear(eOut.dueDate) = 2024
    /\ GetUTCMonth(eOut.dueDate) = 0
    /\ GetUTCDate(eOut.dueDate) = 16

\* C15: for a quarterly rule, whatever parameter blocks it carries, and any
\* previous due date, the next due date is the first day of the first
\* quarter that starts strictly after the month of the previous due date
\* (January 1st of the next year for October to December); so firstDueDate
\* 2024-02-15 with lead time 0 matches on 2024-04-01 with dueDate 2024-04-01.
C15_QuarterlyNext ==
    (nOut.done /\ nRec.type = "quarterly") =>
        LET QuarterStartsAfter ==
                {DateUTC(GetUTCFullYear(nPrev), q, 1) :
                    q \in {q \in {3, 6, 9, 12} : q > GetUTCMonth(nPrev)}}
        IN
        /\ nOut.value \in QuarterStartsAfter
        /\ \A q \in QuarterStartsAfter : nOut.value <= q
        /\ GetUTCDate(nOut.value) = 1
        /\ GetUTCMonth(nOut.value) \in {0, 3, 6, 9}
        /\ GetCreationForDate(ScenarioQ, ScenarioQToday)
               = Match(DateUTC(2024, 3, 1), DateUTC(2024, 3, 1))

C15_Witness ==
    /\ nOut.done /\ nRec.type = "quarterly"
    /\ nRec.daily.present /\ nRec.monthly.present
    /\ GetUTCMonth(nPrev) = 11
    /\ GetUTCMonth(nOut.value) = 0
    /\ GetUTCFullYear(nOut.value) = GetUTCFullYear(nPrev) + 1

\* C16: for a monthly rule the next due date is a date: its month is the
\* month of the previous due date advanced by max(1, intervalMonths), its day
\* is dayOfMonth (the previous due date's day when there is none), and a day
\* beyond the length L of that month falls on day (dayOfMonth - L) of the
\* month after it, never on the last day of the target month.
C16_MonthlyNext ==
    (nOut.done /\ nRec.type = "monthly") =>
        LET day == IF nRec.monthly.dayOfMonth = 0 THEN GetUTCDate(nPrev)
                   ELSE nRec.monthly.dayOfMonth
            target == GetUTCMonth(nPrev) + Max(1, nRec.monthly.intervalMonths)
            year == GetUTCFullYear(nPrev)
            L == DaysInMonth(year + (target \div 12), target % 12)
        IN  /\ nOut.value # InvalidDate
            /\ nOut.value # Terminal
            /\ IF day <= L
                  THEN /\ GetUTCFullYear(nOut.value) = year + (target \div 12)
                       /\ GetUTCMonth(nOut.value) = target % 12
                       /\ GetUTCDate(nOut.value) = day
                  ELSE /\ GetUTCFullYear(nOut.value) = year + ((target + 1) \div 12)
                       /\ GetUTCMonth(nOut.value) = (target + 1) % 12
                       /\ GetUTCDate(nOut.value) = day - L

\* the events a call of generateTemplateEvents returned (none when it threw)
Projected == IF cPc = "done" THEN cEvents ELSE <<>>

\* the occurrence sequence of a recurrence from a due date on, up to a day
RECURSIVE OccurrencesUpTo(_, _, _)
OccurrencesUpTo(due, recurrence, limit) ==
    IF due \in {Terminal, InvalidDate} \/ due > limit THEN {}
    ELSE LET next == NextDueDate(due, recurrence)
         IN  {due} \cup (IF next # Terminal /\ Before(due, next)
                         THEN OccurrencesUpTo(next, recurrence, limit) ELSE {})

\* C17: with both layers enabled, for every template that passes the
\* filters, the returned events hold a futureDue marker for every occurrence
\* whose due date lies in [start, end] and a futureCreation marker for every
\* occurrence whose creation date lies in [start, end], and no returned
\* event is dated outside [start, end].
C17_MarkersOfTheWindow ==
    (cPc \in {"done", "thrown"} /\ cLayers.futureDue /\ cLayers.futureCreation) =>
        /\ \A k \in 1..Len(cTemplates) :
              PassesFilters(cTemplates[k], cFilter) =>
                LET template == cTemplates[k]
                    lead == DaysBefore(template)
                    \* a creation date in the window has its due date at most
                    \* lead days after the end
                    last == IF AddDays(cEnd, lead) = InvalidDate THEN cEnd
                            ELSE AddDays(cEnd, lead)
                    Marker(layer, date) ==
                        \E i \in 1..Len(Projected) :
                            Projected[i] = Event(layer, template, FormatDate(date))
                IN  \A due \in OccurrencesUpTo(InitialDueDate(template),
                                                template.recurrence, last) :
                        /\ (cStart <= due /\ due <= cEnd) => Marker("futureDue", due)
                        /\ (AtMost(cStart, AddDays(due, -lead)) /\ AtMost(AddDays(due, -lead), cEnd))
                              => Marker("futureCreation", AddDays(due, -lead))
        /\ \A i \in 1..Len(Projected) :
              /\ cStart <= ParseDateString(Projected[i].start)
              /\ ParseDateString(Projected[i].start) <= cEnd

\* C18: for every template, the walk of the projector starts from the anchor
\* the evaluator uses: custom.startDate when the rule is custom and it is
\* present, firstDueDate otherwise.
C18_SameAnchor ==
    (cPc = "skip" /\ cIterations = 0) => cDue = InitialDueDate(cTemplates[cIdx])

\* C19: in the returned event sequence the events of any single template are
\* in ascending order of their event date.
C19_AscendingPerTemplate ==
    cPc \in {"done", "thrown"} =>
        \A i, j \in 1..Len(Projected) :
            (i < j /\ Projected[i].templateId = Projected[j].templateId)
                => ParseDateString(Projected[i].start) <= ParseDateString(Projected[j].start)

\* C20: a request to delete a client that a stored template references
\* ends with status 400 and writes nothing to the client collection, and a
\* client is removed only when no stored template references it.
C20_ReferencedClientKept ==
    /\ \A r \in Reqs :
          (dOp[r] = "deleteClient" /\ dStatus[r] = 400) =>
              \A w \in dRemovals : w.req # r
    /\ \A r \in Reqs :
          (/\ dOp[r] = "deleteClient" /\ dPc[r] = "done"
           /\ \E template \in templatesFile :
                 template.id > NumRequests /\ template.clientId = dArg[r])
              => dStatus[r] = 400
    /\ \A w \in dRemovals : ~w.referenced

\* the templates that matched today in the current run: those
\* createTaskFromTemplate was invoked for
Matched == {i \in 1..Len(templates) : \E k \in 1..Len(invoked) : invoked[k] = <<runNo[Runner], i>>}

\* C21: a run that has ended has printed 'No task templates are scheduled to
\* create today.' exactly when no template matched today, and when a template
\* matched it has printed the 'Created' message or the per-template errors.
C21_NoneScheduledIffNoMatch ==
    RunEnded =>
        /\ "none_scheduled" \in stdout[Runner] <=> Matched = {}
        /\ Matched # {} => stdout[Runner] \cap {"created", "errors"} # {}

\* the templates, in processing order, for which a task row was committed in
\* the current run
Materialized ==
    SelectSeq([i \in 1..Len(templates) |-> i],
              LAMBDA i : \E k \in Invocations(i) :
                            /\ invoked[k][1] = runNo[Runner]
                            /\ \E r \in TaskRows : r.by = <<Runner, k>>)

C23_OneTemplateAtATime ==
    /\ Cardinality(checkedOut) <= 1
    /\ pc[Runner] \in {"run_start", "loop", "run_end"} =>
          /\ checkedOut = {}
          /\ conn[Runner] = NoConn
          /\ \A c \in Conns : connPending[c] = {}
          /\ seqLock = NoConn

C23_Witness ==
    /\ pc[Runner] = "loop" /\ idx[Runner] = 2 /\ Len(templates) = 2
    /\ checkedOut = {}
    /\ \E r \in TaskRows : r.by = <<Runner, callNo[Runner]>>
    /\ failedCalls = {}

\* C24: evaluate terminates for every template and every today with a
\* result that is a match or None (None when the ceiling of 50 000 iterations
\* is reached); it never ends any other way.
C24_EvaluateReturns ==
    eOut # Pending => eOut.kind \in {"match", "none"}

\* C25: for a daily, custom or weekly rule whose anchor's creation date lies
\* before today, fastForwardDailyLike runs its single-step loop at most once
\* after the jump, returns the earliest creation date of the sequence that is
\* not before today with a due date a whole multiple of the interval after
\* the anchor, and evaluate returns after that one advance: a match when that
\* creation date is today, None otherwise.
C25_FastForwardLandsOnce ==
    (/\ eOut # Pending
     /\ eT.recurrence.type \in {"daily", "custom", "weekly"}
     /\ InitialDueDate(eT) # InvalidDate
     /\ Before(AddDays(InitialDueDate(eT), -DaysBefore(eT)), eToday)) =>
        LET anchor == InitialDueDate(eT)
            daysBefore == DaysBefore(eT)
            interval == IF eT.recurrence.type = "weekly"
                        THEN Max(1, NumOr(eT.recurrence.weekly.intervalWeeks, 1)) * 7
                        ELSE Max(1, NumOr(DailyLikeIntervalField(eT.recurrence), 1))
            fast == FastForwardDailyLike(anchor, eToday, daysBefore, interval)
        IN  /\ fast.steps <= 1
            /\ fast.creation # InvalidDate /\ fast.due # InvalidDate
            /\ fast.creation >= eToday
            /\ fast.creation - interval < eToday
            /\ fast.creation = AddDays(fast.due, -daysBefore)
            /\ fast.due > anchor /\ (fast.due - anchor) % interval = 0
            /\ eOut = IF fast.creation = eToday THEN Match(fast.due, fast.creation)
                      ELSE NoMatch

\* C26: for every template, whatever its recurrence type, evaluate with
\* today = anchor minus the lead time returns a match whose dueDate is the
\* anchor date as stored, not a date moved onto the grid of the rule.
C26_FirstOccurrenceIsAnchor ==
    LET anchor == ParseDateString(AnchorString(eT)) IN
    (/\ eOut # Pending
     /\ anchor # InvalidDate
     /\ eToday = AddDays(anchor, -Max(0, eT.daysBeforeDueDateToCreate))) =>
        /\ eOut.kind = "match"
        /\ eOut.dueDate = anchor
        /\ eOut.creationDate = eToday

C26_Witness ==
    /\ eOut.kind = "match"
    /\ eT.recurrence.type = "quarterly"
    /\ eT.daysBeforeDueDateToCreate = 2
    /\ eOut.dueDate = ParseDateString(eT.firstDueDate)
    /\ GetUTCDate(eOut.dueDate) # 1

\* C27: after any sequence of POST and PUT requests every stored template
\* has a recurrence type among the six kinds and, for daily, weekly, monthly
\* and custom, a stored interval that is a number of at least 1; a body that
\* breaks this was answered 400 and left the store unchanged.
C27_StoredRulesWellFormed ==
    /\ \A template \in tStore :
          /\ template.recurrence.type \in RuleTypes
          /\ template.recurrence.type \in IntervalTypes =>
                (template.recurrence.interval.tag = "num"
                 /\ template.recurrence.interval.n >= 1)
    /\ (/\ tStatus # 0
        /\ \/ tBody.type \notin RuleTypes
           \/ /\ tBody.type \in IntervalTypes
              /\ ~(tBody.hasBlock /\ tBody.interval.tag = "num" /\ tBody.interval.n >= 1))
          => (tStatus = 400 /\ tStore = tBefore)

\* the templates of the list for which this run has committed a row
CommittedFor(i) ==
    \E k \in Invocations(i) :
        /\ invoked[k][1] = runNo[Runner]
        /\ \E r \in rows : r.by = <<Runner, k>>

RecordedFailed == {failed[Runner][k] : k \in 1..Len(failed[Runner])}

\* C28: whenever the run stands between two templates or has ended, a
\* template recorded in failed has no committed row of this run, and a
\* template whose transaction committed is recorded in created, with its audit
\* entry among the entries to write, and not in failed.
C28_FailedMeansNothingCommitted ==
    pc[Runner] \in {"loop", "run_end"} =>
        \A i \in 1..Len(templates) :
            /\ i \in RecordedFailed => ~CommittedFor(i)
            /\ CommittedFor(i) =>
                  /\ i \notin RecordedFailed
                  /\ \E k \in 1..Len(created[Runner]) :
                        /\ created[Runner][k].templateId = i
                        /\ \E r \in TaskRows : r.id = created[Runner][k].taskId
                                                 /\ r.by[1] = Runner
                        /\ \E j \in 1..Len(existing[Runner]) :
                              existing[Runner][j] = created[Runner][k]

\* a run that ended with one template failed and another committed
C28_Witness ==
    /\ RunEnded
    /\ RecordedFailed # {}
    /\ \E i \in 1..Len(templates) : CommittedFor(i)

\* the entries of a sequence
Entries(q) == {q[k] : k \in 1..Len(q)}

\* C29: when two batch runs that overlap have both completed, the audit file
\* holds every entry it held before them and every entry either run appended.
C29_OverlappingRunsKeepEntries ==
    (\A p \in Procs : pc[p] = "run_end" /\ "job_failed" \notin stdout[p]) =>
        \A p \in Procs :
            Entries(startFile[p]) \cup Entries(created[p]) \subseteq Entries(auditFile)

\* C30: when the overlapping requests have all been answered, the template
\* store holds the record of every create answered 201 and the client store
\* holds no client whose removal was answered 200.
C30_OverlappingMutationsBothKept ==
    (\A r \in Reqs : dPc[r] = "done") =>
        \A r \in Reqs :
            /\ (dOp[r] = "createTemplate" /\ dStatus[r] = 201) =>
                  \E template \in templatesFile : template.id = r
            /\ (dOp[r] = "deleteClient" /\ dStatus[r] = 200) =>
                  dArg[r] \notin clientsFile

=============================================================================
